---- MODULE Spec2Model ----
(***************************************************************************)
(* Model of the Inkley pressure-sensor firmware (src/main.c): the SysTick  *)
(* handler (ADC read, RingStore push, flash log), the CAN receive handler  *)
(* (single-slot mailbox CAN_RECV) and the main loop (command dispatch,     *)
(* overrun branch, I2C commands, heartbeat, polled call of the CAN         *)
(* handler).                                                               *)
(*                                                                         *)
(* Interrupt handlers run to completion: the code sets no priorities, so   *)
(* neither handler preempts the other, and the main loop never preempts a  *)
(* handler.  The main loop is split at its accesses to the mailbox, to the  *)
(* ring and to the flash cursor, so a handler may run between any two of   *)
(* them, and between the steps of the heartbeat block.                     *)
(*                                                                         *)
(* Sizes are scaled: the flash region is RegionBlocks erase blocks of      *)
(* 2^BlockShift bytes (64 blocks of 2^10 in the source), the ring has      *)
(* SENSORBUFSIZE slots (1024), the tick counter wraps at TimerMod (2^32),  *)
(* the heartbeat interval is HeartBeatTime ticks (10000) and the ADC wait   *)
(* gives up after ADC_ReadTimeOut polls (100), the transmit wait after     *)
(* TxSpinMax polls (0x1000).                                               *)
(***************************************************************************)
EXTENDS Integers, Sequences, FiniteSets, TLC

\* ------------------------------------------------------------------ bounds
BlockShift    == 3      \* log2 of the erase block size in bytes
RegionBlocks  == 3      \* erase blocks in the reserved flash region
SENSORBUFSIZE == 3      \* slots of SensorBufferData
MaxSample     == 1      \* ADC readings are 0..MaxSample
TimerMod      == 4      \* GlobalTimer and HeatbeatTrigger wrap at TimerMod
HeartBeatTime == 2      \* heartbeat interval in ticks
ADC_ReadTimeOut == 2    \* polls the tick handler waits for the ADC
TxSpinMax     == 2      \* polls CANSendMSG waits for the transmit request

\* ------------------------------------------------------- program constants
BuildVersion    == 1002
CAN_ID          == 263       \* 0x107
CAN_F_NEW       == 1
CAN_F_OVERRUN   == 2
FlashUserSpace  == 196608    \* 0x30000
SampleBytes     == 4         \* bytes programmed per sample
HeartbeatId     == 2015      \* 0x7DF
HeartbeatTag    == 127       \* 0x7F
RespTag         == 8         \* 0x08

icmdReadVersion        == 1
icmdReadData           == 2
icmdFlashStart         == 3
icmdFlashReadPos       == 4
icmdFlashEraseFull     == 5
icmdFlashSetSampleSize == 6
icmdFlashStatus        == 7
icmdFlashGetData       == 8
icmdFlashGenCSV        == 9

\* Erase block size in bytes (0x400 in the source).
EraseBlock == 2 ^ BlockShift
\* Size of the reserved region and largest sample window (0x10000 in the source).
FlashMaxSize == RegionBlocks * EraseBlock
\* First address past the reserved region (0x40000 in the source).
FlashEnd == FlashUserSpace + FlashMaxSize
\* Mask and match value of the tick handler's erase test (0x7ff and 0x400).
EraseMask  == 2 * EraseBlock - 1
EraseMatch == EraseBlock

\* ----------------------------------------------------------------- helpers
\* A uint32_t value is held as the integer with the same 32 bits in two's
\* complement: values from 2^31 up appear as negative numbers.  \div and %
\* round down, so Byte gives the right byte of those too.
\* Byte k (0 = least significant) of a 32-bit value: (uint8_t)(v >> 8k).
Byte(v, k) == (v \div (2 ^ (8 * k))) % 256

\* x & mask for a mask of the form 2^n - 1.
BitAnd(x, mask) == x % (mask + 1)

bit_check(number, bit) == (number \div (2 ^ bit)) % 2 = 1
bit_set(number, bit)   == IF bit_check(number, bit) THEN number ELSE number + 2 ^ bit
bit_clear(number, bit) == IF bit_check(number, bit) THEN number - 2 ^ bit ELSE number

\* An 8-byte CAN payload, indexed 0..7 as in the source.
ZeroMsg == [i \in 0..7 |-> 0]

\* Request frame: [0] command, [1..2] reply id, [3..6] argument, [7] zero.
Frame(cmd, dest, arg) ==
    [i \in 0..7 |->
        CASE i = 0 -> cmd
          [] i = 1 -> Byte(dest, 1)
          [] i = 2 -> Byte(dest, 0)
          [] i = 3 -> Byte(arg, 3)
          [] i = 4 -> Byte(arg, 2)
          [] i = 5 -> Byte(arg, 1)
          [] i = 6 -> Byte(arg, 0)
          [] OTHER -> 0]

\* CAN_RESP with bytes 4..7 set to the big-endian bytes of v.
WithResult(resp, v) ==
    [resp EXCEPT ![4] = Byte(v, 3), ![5] = Byte(v, 2),
                 ![6] = Byte(v, 1), ![7] = Byte(v, 0)]

\* The 32-bit value with the bytes b3 (most significant) .. b0.
FromBytes(b3, b2, b1, b0) ==
    (((IF b3 >= 128 THEN b3 - 256 ELSE b3) * 256 + b2) * 256 + b1) * 256 + b0

\* a > b between two uint32_t values.
UGt(a, b) == IF (a < 0) = (b < 0) THEN a > b ELSE a < 0

\* The 32-bit value carried in bytes 4..7 of a response.
ResultOf(resp) == FromBytes(resp[4], resp[5], resp[6], resp[7])

ADCValues == 0..MaxSample

VARIABLES
    FLAGS, RECV_ID, MSG,                 \* CAN_RECV
    SensorBuf,                           \* circ_bbuf_t: head, tail, maxlen, bufdata
    FlashIndex, FlashSampleSize,
    flash,                               \* the 32-bit word at each address
    progLog,                             \* addresses programmed since FlashStart
    GlobalTimer, HeatbeatTrigger, TimeOutClock,
    I2C_RcvNewCommand, I2C_RcvCommand,
    pc, retpc,                           \* main loop position, pop's return point
    flagsTmp,                            \* FLAGS as loaded by a read-modify-write
    CANID_tmp, CANVAL_tmp, CAN_RESP, CAN_CMD_REQUEST, BufDataVar, popNext,
    lop,                                 \* main's loop variable (FlashGetData)
    lastTx,                              \* last frame handed to CANSendMSG
    TimeOut, txRet,                      \* CANSendMSG: its poll count, the value
                                         \* it returned
    txDelay,                             \* polls for which the controller keeps
                                         \* the transmit request of a frame set
    txCount,                             \* calls of CANSendMSG by the command
                                         \* switch since CAN_F_NEW was last cleared
    fifo,                                \* values pushed and not yet popped
    rxRejected,                          \* observer: the receive handler's last
                                         \* run read a frame for another module
    sinceMark, markBy                    \* observer: ticks since the heartbeat
                                         \* deadline was last set, and by what

mailboxVars == <<FLAGS, RECV_ID, MSG>>
ringVars    == <<SensorBuf, fifo>>
flashVars   == <<FlashIndex, FlashSampleSize, flash, progLog>>
tickVars    == <<GlobalTimer, TimeOutClock>>
i2cVars     == <<I2C_RcvNewCommand, I2C_RcvCommand>>
localVars   == <<flagsTmp, CANID_tmp, CANVAL_tmp, CAN_RESP, CAN_CMD_REQUEST,
                 BufDataVar, popNext, retpc, lop>>
sendVars    == <<lastTx, TimeOut, txRet>>
txVars      == <<sendVars, txCount, txDelay>>
obsVars     == <<rxRejected, sinceMark, markBy>>
vars == <<mailboxVars, ringVars, flashVars, tickVars, HeatbeatTrigger, i2cVars,
          pc, localVars, txVars, obsVars>>

\* ---------------------------------------------------------------- RingStore
Init_circ_bbuf ==
    [bufdata |-> [i \in 0..(SENSORBUFSIZE - 1) |-> 0],
     maxlen  |-> SENSORBUFSIZE,
     head    |-> 0,
     tail    |-> 0]

\* A push without the full test: it overwrites the oldest unread value.
circ_bbuf_push_NoFullTest(c, data) ==
    LET next0 == c.head + 1
        next  == IF next0 >= c.maxlen THEN 0 ELSE next0
    IN  [c |-> [c EXCEPT !.bufdata[c.head] = data, !.head = next], ret |-> 0]

\* A push that stores at the advanced head instead of the current one.
circ_bbuf_push_StoreAtNext(c, data) ==
    LET next0 == c.head + 1
        next  == IF next0 >= c.maxlen THEN 0 ELSE next0
    IN  IF next = c.tail
        THEN [c |-> c, ret |-> -1]
        ELSE [c |-> [c EXCEPT !.bufdata[next] = data, !.head = next], ret |-> 0]

\* circ_bbuf_push: the buffer afterwards and the value returned.
circ_bbuf_push(c, data) ==
    LET next0 == c.head + 1
        next  == IF next0 >= c.maxlen THEN 0 ELSE next0
    IN  IF next = c.tail
        THEN [c |-> c, ret |-> -1]
        ELSE [c |-> [c EXCEPT !.bufdata[c.head] = data, !.head = next], ret |-> 0]

\* circ_bbuf_pop run without preemption: the buffer afterwards, the value
\* returned and the content of *data afterwards (data is its content before).
circ_bbuf_pop(c, data) ==
    LET next0 == c.tail + 1
        next  == IF next0 >= c.maxlen THEN 0 ELSE next0
    IN  IF c.head = c.tail
        THEN [c |-> c, ret |-> -1, data |-> data]
        ELSE [c |-> [c EXCEPT !.tail = next], ret |-> 0, data |-> c.bufdata[c.tail]]

\* -------------------------------------------------------------------- flash
\* Word w of the model's flash is the 4-byte word at AddrOf(w); the last index
\* is the word at FlashEnd, the first one past the reserved region.
FlashWords == 0..(FlashMaxSize \div SampleBytes)
AddrOf(w)    == FlashUserSpace + SampleBytes * w
WordOf(addr) == (addr - FlashUserSpace) \div SampleBytes

\* An erased word reads 0xFFFFFFFF.
ErasedWord == -1

\* a & b for two words that are not ErasedWord: words the tick handler
\* programs are ADC readings, which are not negative.
RECURSIVE AndBits(_, _)
AndBits(a, b) ==
    IF a = 0 \/ b = 0 THEN 0
    ELSE (a % 2) * (b % 2) + 2 * AndBits(a \div 2, b \div 2)

\* FlashErase(addr): every word of the erase block that holds addr reads erased.
FlashErase(f, addr) ==
    [w \in DOMAIN f |->
        IF AddrOf(w) \div EraseBlock = addr \div EraseBlock THEN ErasedWord ELSE f[w]]

\* FlashProgram of the word v at addr: programming can only clear bits, so the
\* word ends up holding v only if it was erased, and old & v otherwise.
FlashProgram(f, addr, v) ==
    [f EXCEPT ![WordOf(addr)] = IF @ = ErasedWord THEN v ELSE AndBits(@, v)]

\* ------------------------------------------------------------------ SysTick
\* Variant: the wait never gives up.
RECURSIVE ADCWait_NoGiveUp(_, _)
ADCWait_NoGiveUp(readyAt, clock) ==
    IF clock >= readyAt
    THEN [ok |-> TRUE, clock |-> clock]
    ELSE ADCWait_NoGiveUp(readyAt, clock + 1)

\* The bounded wait for ADCIntStatus: the conversion completes at the poll
\* numbered readyAt (0 = already complete at the first poll).
RECURSIVE ADCWait(_, _)
ADCWait(readyAt, clock) ==
    IF clock >= readyAt
    THEN [ok |-> TRUE, clock |-> clock]
    ELSE IF clock > ADC_ReadTimeOut
         THEN [ok |-> FALSE, clock |-> clock + 1]
         ELSE ADCWait(readyAt, clock + 1)

\* Polls at which the conversion may complete: at once, at the last poll that is
\* still in time, and too late.
ADCReadyAt == {0, ADC_ReadTimeOut + 1, ADC_ReadTimeOut + 2}

\* Variant: the window test lets the cursor equal the end of the window.
FlashWindowOpen_Inclusive == FlashIndex <= FlashUserSpace + FlashSampleSize

\* The tick handler's test for logging the sample to flash.
FlashWindowOpen == FlashIndex < FlashUserSpace + FlashSampleSize

\* The tick handler's test for erasing before it programs.
EraseDue == BitAnd(FlashIndex, EraseMask) = EraseMatch

\* Variant: the cursor advances by two words.
ProgramAddr_TwoWords == FlashIndex + 2 * SampleBytes

\* The address FlashProgram is given: the value of (FlashIndex += 4), which is
\* also the new cursor.
ProgramAddr == FlashIndex + SampleBytes

SysTickIntHandler(readyAt, sample) ==
    LET w == ADCWait(readyAt, 0) IN
    /\ TimeOutClock' = w.clock
    /\ IF ~w.ok
       THEN UNCHANGED <<ringVars, flashVars, GlobalTimer>>
       ELSE LET r == circ_bbuf_push(SensorBuf, sample) IN
            /\ SensorBuf' = r.c
            /\ fifo' = IF r.ret = 0 THEN Append(fifo, sample) ELSE fifo
            /\ IF FlashWindowOpen
               THEN /\ FlashIndex' = ProgramAddr
                    /\ flash' = FlashProgram(
                                   IF EraseDue THEN FlashErase(flash, FlashIndex)
                                               ELSE flash,
                                   ProgramAddr, sample)
                    /\ progLog' = Append(progLog, ProgramAddr)
                    /\ UNCHANGED FlashSampleSize
               ELSE UNCHANGED flashVars
            /\ GlobalTimer' = (GlobalTimer + 1) % TimerMod
    /\ UNCHANGED <<mailboxVars, HeatbeatTrigger, i2cVars, pc, localVars, txVars>>

\* The tick interrupt with the conversion completing at a poll in readyAts
\* and its result drawn from samples.
SysTickAt(readyAts, samples) ==
    \E readyAt \in readyAts, sample \in samples :
        SysTickIntHandler(readyAt, sample)

\* The tick interrupt with the conversion result drawn from samples.
SysTickOn(samples) == SysTickAt(ADCReadyAt, samples)

SysTick == SysTickOn(ADCValues)

\* -------------------------------------------------------------- CAN receive
\* What one run of the handler finds in the controller: cause is "status" (a
\* controller status interrupt), "none" (no new data in message object 1) or
\* "rx" (message object 1 holds the frame data with identifier id).
RxEvent(cause, id, data) == [cause |-> cause, id |-> id, data |-> data]

\* A handler that marks every arrival as an overrun.
SubmitFlags_AlwaysOverrun(f) ==
    bit_set(bit_set(f, CAN_F_OVERRUN), CAN_F_NEW) % 256

\* CAN_RECV.FLAGS after a frame was stored: the overrun bit is set if the new
\* bit was still set, then the new bit is set.
SubmitFlags(f) ==
    bit_set(IF bit_check(f, CAN_F_NEW) THEN bit_set(f, CAN_F_OVERRUN) % 256 ELSE f,
            CAN_F_NEW) % 256

\* Variant: the handler stores every frame it reads.
Accepted_AnyId(rx) == rx.cause = "rx"

\* The handler read a frame from message object 1 and the frame's identifier
\* is this module's.
Accepted(rx) == rx.cause = "rx" /\ rx.id = CAN_ID

\* IntCAN0Handler: its effect on CAN_RECV.
IntCAN0Handler(rx) ==
    IF Accepted(rx)
    THEN /\ RECV_ID' = rx.id
         /\ MSG' = rx.data
         /\ FLAGS' = SubmitFlags(FLAGS)
    ELSE UNCHANGED mailboxVars

\* The handler entered as an interrupt, between two steps of the main loop.
CANInterrupt(events) ==
    /\ \E rx \in events : IntCAN0Handler(rx)
    /\ UNCHANGED <<ringVars, flashVars, tickVars, HeatbeatTrigger, i2cVars,
                   pc, localVars, txVars>>

\* I2C0SlaveIntHandler: latch the command byte and raise the flag.
I2C0SlaveIntHandler(cmd) ==
    /\ I2C_RcvCommand' = cmd
    /\ I2C_RcvNewCommand' = TRUE
    /\ UNCHANGED <<mailboxVars, ringVars, flashVars, tickVars, HeatbeatTrigger,
                   pc, localVars, txVars>>

\* ---------------------------------------------------------------- main loop
sharedVars == <<mailboxVars, ringVars, flashVars, tickVars, HeatbeatTrigger, i2cVars>>

\* CANSendMSG(CANID, data): the frame handed to the controller.
CANSendMSG(CANID, data) == <<[id |-> CANID, data |-> data]>>

\* The value CANSendMSG returns when its wait gives up (0xffffffff).
TxTimedOut == FromBytes(255, 255, 255, 255)

\* Variant: the wait reports success when it gives up.
RECURSIVE TxWait_ZeroOnGiveUp(_, _)
TxWait_ZeroOnGiveUp(doneAt, t) ==
    IF t >= doneAt
    THEN [ret |-> 0, TimeOut |-> t]
    ELSE IF t + 1 > TxSpinMax
         THEN [ret |-> 0, TimeOut |-> t + 1]
         ELSE TxWait_ZeroOnGiveUp(doneAt, t + 1)

\* CANSendMSG's wait for the transmit request to clear: the request is found
\* set at doneAt polls; each of them counts TimeOut up, and the wait gives up
\* when the count exceeds the bound.
RECURSIVE TxWait(_, _)
TxWait(doneAt, t) ==
    IF t >= doneAt
    THEN [ret |-> 0, TimeOut |-> t]
    ELSE IF t + 1 > TxSpinMax
         THEN [ret |-> TxTimedOut, TimeOut |-> t + 1]
         ELSE TxWait(doneAt, t + 1)

\* A call of CANSendMSG: the frame is handed over, the wait runs, the value
\* returned is dropped by every caller.
Transmit(CANID, data) ==
    LET w == TxWait(txDelay, 0) IN
    /\ lastTx' = CANSendMSG(CANID, data)
    /\ TimeOut' = w.TimeOut
    /\ txRet' = w.ret
    /\ UNCHANGED txDelay

\* A consume that drops the value bit_clear returns, as the end of the block does.
ClearedNew_Dropped(loaded) == loaded % 256

\* The value stored back by "CAN_RECV.FLAGS = bit_clear(CAN_RECV.FLAGS, CAN_F_NEW)"
\* from the value it loaded.
ClearedNew(loaded) == bit_clear(loaded, CAN_F_NEW) % 256

\* Variant: the test looks at the overrun bit.
MainCheckNew_OverrunBit ==
    /\ pc = "check"
    /\ pc' = IF bit_check(FLAGS, CAN_F_OVERRUN) THEN "clr_load" ELSE "ovr"
    /\ UNCHANGED <<sharedVars, localVars, txVars>>

\* if (bit_check(CAN_RECV.FLAGS, CAN_F_NEW))
MainCheckNew ==
    /\ pc = "check"
    /\ pc' = IF bit_check(FLAGS, CAN_F_NEW) THEN "clr_load" ELSE "ovr"
    /\ UNCHANGED <<sharedVars, localVars, txVars>>

\* The load of CAN_RECV.FLAGS = bit_clear(CAN_RECV.FLAGS, CAN_F_NEW)
MainClearLoad ==
    /\ pc = "clr_load"
    /\ flagsTmp' = FLAGS
    /\ pc' = "clr_store"
    /\ UNCHANGED <<sharedVars, CANID_tmp, CANVAL_tmp, CAN_RESP, CAN_CMD_REQUEST,
                   BufDataVar, popNext, retpc, txVars, lop>>

\* ... and its store.
MainClearStore ==
    /\ pc = "clr_store"
    /\ FLAGS' = ClearedNew(flagsTmp)
    /\ txCount' = 0
    /\ pc' = "read_id"
    /\ UNCHANGED <<RECV_ID, MSG, ringVars, flashVars, tickVars, HeatbeatTrigger,
                   i2cVars, localVars, sendVars, txDelay>>

\* CANID_tmp = (CAN_RECV.MSG[1] << 8) + CAN_RECV.MSG[2]
MainReadId ==
    /\ pc = "read_id"
    /\ CANID_tmp' = MSG[1] * 256 + MSG[2]
    /\ pc' = "read_val"
    /\ UNCHANGED <<sharedVars, flagsTmp, CANVAL_tmp, CAN_RESP, CAN_CMD_REQUEST,
                   BufDataVar, popNext, retpc, txVars, lop>>

\* CANVAL_tmp = (MSG[3] << 24) + (MSG[4] << 16) + (MSG[5] << 8) + MSG[6]
MainReadVal ==
    /\ pc = "read_val"
    /\ CANVAL_tmp' = FromBytes(MSG[3], MSG[4], MSG[5], MSG[6])
    /\ pc' = "resp"
    /\ UNCHANGED <<sharedVars, flagsTmp, CANID_tmp, CAN_RESP, CAN_CMD_REQUEST,
                   BufDataVar, popNext, retpc, txVars, lop>>

\* CAN_RESP[0..7] = 0x08, CAN_ID high, CAN_ID low, CAN_RECV.MSG[0], 0, 0, 0, 0
MainPrepResp ==
    /\ pc = "resp"
    /\ CAN_RESP' = [i \in 0..7 |->
                       CASE i = 0 -> RespTag
                         [] i = 1 -> Byte(CAN_ID, 1)
                         [] i = 2 -> Byte(CAN_ID, 0)
                         [] i = 3 -> MSG[0]
                         [] OTHER -> 0]
    /\ pc' = "cmd"
    /\ UNCHANGED <<sharedVars, flagsTmp, CANID_tmp, CANVAL_tmp, CAN_CMD_REQUEST,
                   BufDataVar, popNext, retpc, txVars, lop>>

\* CAN_CMD_REQUEST = CAN_RECV.MSG[0]
MainReadCmd ==
    /\ pc = "cmd"
    /\ CAN_CMD_REQUEST' = MSG[0]
    /\ pc' = "dispatch"
    /\ UNCHANGED <<sharedVars, flagsTmp, CANID_tmp, CANVAL_tmp, CAN_RESP,
                   BufDataVar, popNext, retpc, txVars, lop>>

\* Fill bytes 4..7 of CAN_RESP with v and send it to CANID_tmp.
Respond(v) ==
    /\ CAN_RESP' = WithResult(CAN_RESP, v)
    /\ Transmit(CANID_tmp, CAN_RESP')
    /\ txCount' = txCount + 1

\* Variant: an argument above the region size is stored as it is.
ClampSampleSize_NoUpper(v) == IF v = 0 THEN FlashMaxSize ELSE v

\* Variant: the range test compares as signed integers.
ClampSampleSize_Signed(v) == IF v = 0 \/ v > FlashMaxSize THEN FlashMaxSize ELSE v

\* The argument as FlashSetSampleSize stores it.
ClampSampleSize(v) == IF v = 0 \/ UGt(v, FlashMaxSize) THEN FlashMaxSize ELSE v

\* ((FlashIndex - FlashUserSpace) / FlashSampleSize) * 100
FlashStatusValue == ((FlashIndex - FlashUserSpace) \div FlashSampleSize) * 100

\* switch (CAN_CMD_REQUEST)
MainDispatch ==
    /\ pc = "dispatch"
    /\ CASE CAN_CMD_REQUEST = icmdReadVersion ->
              /\ Respond(BuildVersion)
              /\ pc' = "end"
              /\ UNCHANGED <<flashVars, CANVAL_tmp, retpc>>
         [] CAN_CMD_REQUEST = icmdReadData ->
              /\ pc' = "pop_chk"
              /\ retpc' = "rd_send"
              /\ UNCHANGED <<flashVars, CANVAL_tmp, CAN_RESP, txVars>>
         [] CAN_CMD_REQUEST = icmdFlashReadPos ->
              /\ Respond(FlashIndex)
              /\ pc' = "end"
              /\ UNCHANGED <<flashVars, CANVAL_tmp, retpc>>
         [] CAN_CMD_REQUEST = icmdFlashEraseFull ->
              /\ flash' = FlashErase(flash, FlashUserSpace)
              /\ Respond(FlashUserSpace)
              /\ pc' = "end"
              /\ UNCHANGED <<FlashIndex, FlashSampleSize, progLog, CANVAL_tmp, retpc>>
         [] CAN_CMD_REQUEST = icmdFlashStart ->
              /\ FlashIndex' = FlashUserSpace
              /\ progLog' = << >>
              /\ pc' = "fs_send"
              /\ UNCHANGED <<FlashSampleSize, flash, CANVAL_tmp, CAN_RESP, txVars,
                             retpc>>
         [] CAN_CMD_REQUEST = icmdFlashSetSampleSize ->
              /\ CANVAL_tmp' = ClampSampleSize(CANVAL_tmp)
              /\ FlashSampleSize' = CANVAL_tmp'
              /\ Respond(FlashSampleSize')
              /\ pc' = "end"
              /\ UNCHANGED <<FlashIndex, flash, progLog, retpc>>
         [] CAN_CMD_REQUEST = icmdFlashStatus ->
              /\ CANVAL_tmp' = FlashStatusValue
              /\ Respond(CANVAL_tmp')
              /\ pc' = "end"
              /\ UNCHANGED <<flashVars, retpc>>
         [] CAN_CMD_REQUEST = icmdFlashGetData ->
              /\ CANVAL_tmp' = FlashSampleSize
              /\ Respond(CANVAL_tmp')
              /\ pc' = "gd_init"
              /\ UNCHANGED <<flashVars, retpc>>
         [] OTHER ->
              /\ pc' = "end"
              /\ UNCHANGED <<flashVars, CANVAL_tmp, CAN_RESP, txVars, retpc>>
    /\ UNCHANGED <<mailboxVars, ringVars, tickVars, HeatbeatTrigger, i2cVars,
                   flagsTmp, CANID_tmp, CAN_CMD_REQUEST, BufDataVar, popNext, lop>>

\* FlashStart: the response, built from FlashIndex as it is read after the
\* assignment FlashIndex = FlashUserSpace.
MainFlashStartSend ==
    /\ pc = "fs_send"
    /\ Respond(FlashIndex)
    /\ pc' = "end"
    /\ UNCHANGED <<sharedVars, flagsTmp, CANID_tmp, CANVAL_tmp, CAN_CMD_REQUEST,
                   BufDataVar, popNext, retpc, lop>>

\* FlashGetData: for (lop = FlashUserSpace; ...
GetDataInit ==
    /\ pc = "gd_init"
    /\ lop' = FlashUserSpace
    /\ pc' = "gd_loop"
    /\ UNCHANGED <<sharedVars, flagsTmp, CANID_tmp, CANVAL_tmp, CAN_RESP,
                   CAN_CMD_REQUEST, BufDataVar, popNext, retpc, txVars>>

\* The word read by *((uint32_t *)lop).
FlashRead(f, addr) == f[WordOf(addr)]

\* Variant: the loop stops before the word at the end of the window.
DumpMore_Exclusive == lop < FlashUserSpace + FlashSampleSize

\* The loop test of FlashGetData.
DumpMore == lop <= FlashUserSpace + FlashSampleSize

\* ... lop <= FlashUserSpace + FlashSampleSize; lop += 4) { send the word at lop }
GetDataLoop ==
    /\ pc = "gd_loop"
    /\ IF DumpMore
       THEN /\ CANVAL_tmp' = FlashRead(flash, lop)
            /\ Respond(CANVAL_tmp')
            /\ lop' = lop + SampleBytes
            /\ pc' = "gd_loop"
       ELSE /\ pc' = "gd_end"
            /\ UNCHANGED <<CANVAL_tmp, CAN_RESP, txVars, lop>>
    /\ UNCHANGED <<sharedVars, flagsTmp, CANID_tmp, CAN_CMD_REQUEST, BufDataVar,
                   popNext, retpc>>

\* CANVAL_tmp = 0x0; the frame that ends the stream.
GetDataEnd ==
    /\ pc = "gd_end"
    /\ CANVAL_tmp' = 0
    /\ Respond(CANVAL_tmp')
    /\ pc' = "end"
    /\ UNCHANGED <<sharedVars, flagsTmp, CANID_tmp, CAN_CMD_REQUEST, BufDataVar,
                   popNext, retpc, lop>>

\* circ_bbuf_pop as the main loop runs it, one step per access to SensorBuf.
\* if (c->head == c->tail) return -1;  next = c->tail + 1, wrapped
PopCheck ==
    /\ pc = "pop_chk"
    /\ IF circ_bbuf_pop(SensorBuf, BufDataVar).ret = -1
       THEN /\ pc' = retpc
            /\ UNCHANGED popNext
       ELSE /\ popNext' = circ_bbuf_pop(SensorBuf, BufDataVar).c.tail
            /\ pc' = "pop_rd"
    /\ UNCHANGED <<sharedVars, flagsTmp, CANID_tmp, CANVAL_tmp, CAN_RESP,
                   CAN_CMD_REQUEST, BufDataVar, retpc, txVars, lop>>

\* *data = c->bufdata[c->tail]
PopRead ==
    /\ pc = "pop_rd"
    /\ BufDataVar' = SensorBuf.bufdata[SensorBuf.tail]
    /\ pc' = "pop_wr"
    /\ UNCHANGED <<sharedVars, flagsTmp, CANID_tmp, CANVAL_tmp, CAN_RESP,
                   CAN_CMD_REQUEST, popNext, retpc, txVars, lop>>

\* c->tail = next; return 0
PopWrite ==
    /\ pc = "pop_wr"
    /\ SensorBuf' = [SensorBuf EXCEPT !.tail = popNext]
    /\ fifo' = IF fifo = << >> THEN fifo ELSE Tail(fifo)
    /\ pc' = retpc
    /\ UNCHANGED <<mailboxVars, flashVars, tickVars, HeatbeatTrigger, i2cVars,
                   localVars, txVars>>

\* ReadData: the response built from BufDataVar once the pop has returned.
MainReadDataSend ==
    /\ pc = "rd_send"
    /\ Respond(BufDataVar)
    /\ pc' = "end"
    /\ UNCHANGED <<sharedVars, flagsTmp, CANID_tmp, CANVAL_tmp, CAN_CMD_REQUEST,
                   BufDataVar, popNext, retpc, lop>>

\* bit_clear(CAN_RECV.FLAGS, CAN_F_NEW);  -- the value returned is dropped
\* HeatbeatTrigger = GlobalTimer + HeartBeatTime;
MainEnd ==
    /\ pc = "end"
    /\ HeatbeatTrigger' = (GlobalTimer + HeartBeatTime) % TimerMod
    /\ pc' = "ovr"
    /\ UNCHANGED <<mailboxVars, ringVars, flashVars, tickVars, i2cVars,
                   localVars, txVars>>

\* The value the overrun branch leaves in CAN_RECV.FLAGS: it calls
\* bit_clear(CAN_RECV.FLAGS, CAN_F_OVERRUN) and drops the value returned.
OverrunBranchFlags(f) == f

\* if (bit_check(CAN_RECV.FLAGS, CAN_F_OVERRUN)) { bit_clear(...); }
MainOverrun ==
    /\ pc = "ovr"
    /\ FLAGS' = IF bit_check(FLAGS, CAN_F_OVERRUN) THEN OverrunBranchFlags(FLAGS)
                                                   ELSE FLAGS
    /\ pc' = "i2c"
    /\ UNCHANGED <<RECV_ID, MSG, ringVars, flashVars, tickVars, HeatbeatTrigger,
                   i2cVars, localVars, txVars>>

\* if (I2C_RcvNewCommand) switch (I2C_RcvCommand); I2C_SendData puts nothing
\* into the state the model keeps.
MainI2C ==
    /\ pc = "i2c"
    /\ IF ~I2C_RcvNewCommand
       THEN /\ pc' = "hb"
            /\ UNCHANGED <<flashVars, retpc>>
       ELSE CASE I2C_RcvCommand = icmdReadData ->
                   /\ pc' = "pop_chk"
                   /\ retpc' = "i2c_done"
                   /\ UNCHANGED flashVars
              [] I2C_RcvCommand = icmdFlashEraseFull ->
                   /\ flash' = FlashErase(flash, FlashUserSpace)
                   /\ pc' = "i2c_done"
                   /\ UNCHANGED <<FlashIndex, FlashSampleSize, progLog, retpc>>
              [] I2C_RcvCommand = icmdFlashStart ->
                   /\ FlashIndex' = FlashUserSpace
                   /\ progLog' = << >>
                   /\ pc' = "i2c_done"
                   /\ UNCHANGED <<FlashSampleSize, flash, retpc>>
              [] OTHER ->
                   /\ pc' = "i2c_done"
                   /\ UNCHANGED <<flashVars, retpc>>
    /\ UNCHANGED <<mailboxVars, ringVars, tickVars, HeatbeatTrigger, i2cVars,
                   flagsTmp, CANID_tmp, CANVAL_tmp, CAN_RESP, CAN_CMD_REQUEST,
                   BufDataVar, popNext, txVars, lop>>

\* I2C_RcvNewCommand = false
MainI2CDone ==
    /\ pc = "i2c_done"
    /\ I2C_RcvNewCommand' = FALSE
    /\ pc' = "hb"
    /\ UNCHANGED <<mailboxVars, ringVars, flashVars, tickVars, HeatbeatTrigger,
                   I2C_RcvCommand, localVars, txVars>>

\* Variant: the heartbeat is sent as soon as the deadline is reached.
HeartbeatDue_AtDeadline == GlobalTimer >= HeatbeatTrigger

\* The test that gates the heartbeat.
HeartbeatDue == GlobalTimer > HeatbeatTrigger

\* if (GlobalTimer > HeatbeatTrigger)
MainHeartbeat ==
    /\ pc = "hb"
    /\ pc' = IF HeartbeatDue THEN "hb_send" ELSE "poll"
    /\ UNCHANGED <<sharedVars, localVars, txVars>>

\* The heartbeat frame carrying the tick counter value t.
HeartbeatFrame(t) ==
    WithResult([i \in 0..7 |->
                   CASE i = 0 -> RespTag
                     [] i = 1 -> Byte(CAN_ID, 1)
                     [] i = 2 -> Byte(CAN_ID, 0)
                     [] i = 3 -> HeartbeatTag
                     [] OTHER -> 0],
               t)

\* CAN_RESP[0..7] = the heartbeat frame; CANSendMSG(0x7DF, CAN_RESP).  The
\* four reads of GlobalTimer are one step: the counter stays below TimerMod,
\* so only its lowest byte differs between the reads and the frame carries
\* the value at the last of them.
MainHeartbeatSend ==
    /\ pc = "hb_send"
    /\ CAN_RESP' = HeartbeatFrame(GlobalTimer)
    /\ Transmit(HeartbeatId, CAN_RESP')
    /\ pc' = "hb_arm"
    /\ UNCHANGED <<sharedVars, flagsTmp, CANID_tmp, CANVAL_tmp, CAN_CMD_REQUEST,
                   BufDataVar, popNext, retpc, lop, txCount>>

\* HeatbeatTrigger = GlobalTimer + HeartBeatTime
MainHeartbeatArm ==
    /\ pc = "hb_arm"
    /\ HeatbeatTrigger' = (GlobalTimer + HeartBeatTime) % TimerMod
    /\ pc' = "poll"
    /\ UNCHANGED <<mailboxVars, ringVars, flashVars, tickVars, i2cVars,
                   localVars, txVars>>

\* IntCAN0Handler() called at the end of the loop body.
MainPoll(events) ==
    /\ pc = "poll"
    /\ \E rx \in events : IntCAN0Handler(rx)
    /\ pc' = "check"
    /\ UNCHANGED <<ringVars, flashVars, tickVars, HeatbeatTrigger, i2cVars,
                   localVars, txVars>>

\* One step of main's while (1) loop.
MainLoop(events) ==
    CASE pc = "check"     -> MainCheckNew
      [] pc = "clr_load"  -> MainClearLoad
      [] pc = "clr_store" -> MainClearStore
      [] pc = "read_id"   -> MainReadId
      [] pc = "read_val"  -> MainReadVal
      [] pc = "resp"      -> MainPrepResp
      [] pc = "cmd"       -> MainReadCmd
      [] pc = "dispatch"  -> MainDispatch
      [] pc = "pop_chk"   -> PopCheck
      [] pc = "pop_rd"    -> PopRead
      [] pc = "pop_wr"    -> PopWrite
      [] pc = "rd_send"   -> MainReadDataSend
      [] pc = "fs_send"   -> MainFlashStartSend
      [] pc = "gd_init"   -> GetDataInit
      [] pc = "gd_loop"   -> GetDataLoop
      [] pc = "gd_end"    -> GetDataEnd
      [] pc = "end"       -> MainEnd
      [] pc = "ovr"       -> MainOverrun
      [] pc = "i2c"       -> MainI2C
      [] pc = "i2c_done"  -> MainI2CDone
      [] pc = "hb"        -> MainHeartbeat
      [] pc = "hb_send"   -> MainHeartbeatSend
      [] pc = "hb_arm"    -> MainHeartbeatArm
      [] pc = "poll"      -> MainPoll(events)

\* -------------------------------------------------------------------- start
\* The state on entry to while (1): globals as initialised, SensorBuf as
\* Init_circ_bbuf leaves it, the first erase block erased by FlashErase at boot
\* and every other word of the region holding rest.
InitWith(rest) ==
    /\ FLAGS = 0
    /\ RECV_ID = 0
    /\ MSG = ZeroMsg
    /\ SensorBuf = Init_circ_bbuf
    /\ fifo = << >>
    /\ FlashIndex = FlashEnd
    /\ FlashSampleSize = FlashMaxSize
    /\ flash = FlashErase([w \in FlashWords |-> rest], FlashUserSpace)
    /\ progLog = << >>
    /\ GlobalTimer = 0
    /\ HeatbeatTrigger = 0
    /\ TimeOutClock = 0
    /\ I2C_RcvNewCommand = FALSE
    /\ I2C_RcvCommand = 0
    /\ pc = "check"
    /\ retpc = "rd_send"
    /\ flagsTmp = 0
    /\ CANID_tmp = 0
    /\ CANVAL_tmp = 0
    /\ CAN_RESP = ZeroMsg
    /\ CAN_CMD_REQUEST = 0
    /\ BufDataVar = 0
    /\ popNext = 0
    /\ lastTx = << >>
    /\ TimeOut = 0
    /\ txRet = 0
    /\ txDelay = 1
    /\ txCount = 0
    /\ rxRejected = FALSE
    /\ sinceMark = 0
    /\ markBy = "boot"
    /\ lop = 0

\* A device whose flash was never written.
Init == InitWith(ErasedWord)

\* ------------------------------------------------- mailbox specification
\* The mailbox protocol: the main loop against the CAN receive handler, which
\* runs both as an interrupt and as the call that ends the loop body.
ReplyA == 2 * 256          \* reply identifier 0x0200
ReplyB == 3 * 256 + 1      \* reply identifier 0x0301
OtherId == CAN_ID + 1      \* an identifier that is not CAN_ID

MailboxFrames ==
    { Frame(icmdReadVersion, ReplyA, 0), Frame(icmdFlashReadPos, ReplyB, 1) }

MailboxEvents ==
    { RxEvent("status", 0, ZeroMsg), RxEvent("none", 0, ZeroMsg) }
    \cup { RxEvent("rx", id, f) : id \in {CAN_ID, OtherId}, f \in MailboxFrames }

NextMailbox ==
    \/ MainLoop(MailboxEvents) /\ UNCHANGED obsVars
    \/ CANInterrupt(MailboxEvents) /\ UNCHANGED obsVars

SpecMailbox == Init /\ [][NextMailbox]_vars

\* ------------------------------------------------------ mailbox properties
NewFlag     == bit_check(FLAGS, CAN_F_NEW)
OverrunFlag == bit_check(FLAGS, CAN_F_OVERRUN)

\* A step in which the handler, as interrupt or as the polled call, stores a
\* frame addressed to this module.
ArrivalStep ==
    \E f \in MailboxFrames :
        \/ CANInterrupt({RxEvent("rx", CAN_ID, f)})
        \/ MainPoll({RxEvent("rx", CAN_ID, f)})

\* The fields the dispatcher works with, as one request frame.
DispatchedFrame == Frame(CAN_CMD_REQUEST, CANID_tmp, CANVAL_tmp)

C3_DispatchOneFrame ==
    pc = "dispatch" => /\ DispatchedFrame \in MailboxFrames
                       /\ CAN_RESP[3] = CAN_CMD_REQUEST

\* C4: when the main loop runs its overrun branch with overrunFlag set, the
\* flag is clear afterwards.
C4_OverrunBranchClears ==
    [][ (MainOverrun /\ OverrunFlag) => ~OverrunFlag' ]_vars

\* --------------------------------------------------- RingStore specification
\* The RingStore between the tick handler, which pushes, and the main loop,
\* which pops while it handles ReadData; the request frames are fetched by the
\* polled call of the receive handler.
RingFrames == { Frame(icmdReadData, ReplyA, 0) }

RingEvents ==
    { RxEvent("none", 0, ZeroMsg) }
    \cup { RxEvent("rx", CAN_ID, f) : f \in RingFrames }

NextRing ==
    \/ MainLoop(RingEvents) /\ UNCHANGED obsVars
    \/ SysTick /\ UNCHANGED obsVars

SpecRing == Init /\ [][NextRing]_vars

\* ---------------------------------------------------- RingStore properties
\* The slot that holds the i-th oldest unread value.
SlotOf(i) == (SensorBuf.tail + i - 1) % SensorBuf.maxlen

\* C5: head and tail stay in [0, maxlen); a push returns -1, and changes
\* nothing, exactly when the store holds maxlen - 1 values; a pop returns -1,
\* and changes nothing, exactly when the store holds none (head = tail).
C5_FullEmpty ==
    /\ SensorBuf.head \in 0..(SensorBuf.maxlen - 1)
    /\ SensorBuf.tail \in 0..(SensorBuf.maxlen - 1)
    /\ (Len(fifo) = 0) <=> (SensorBuf.head = SensorBuf.tail)
    /\ \A v \in ADCValues :
          LET r == circ_bbuf_push(SensorBuf, v) IN
          /\ r.ret \in {0, -1}
          /\ (r.ret = -1) <=> (Len(fifo) = SensorBuf.maxlen - 1)
          /\ (r.ret = -1) => (r.c = SensorBuf)
    /\ LET r == circ_bbuf_pop(SensorBuf, BufDataVar) IN
          /\ r.ret \in {0, -1}
          /\ (r.ret = -1) <=> (Len(fifo) = 0)
          /\ (r.ret = -1) => (r.c = SensorBuf /\ r.data = BufDataVar)

\* C5 witness: the store is full after its indices have wrapped around.
C5_Witness ==
    /\ Len(fifo) = SensorBuf.maxlen - 1
    /\ SensorBuf.head < SensorBuf.tail
    /\ circ_bbuf_push(SensorBuf, 0).ret = -1

\* C6: with ticks pushing between any two steps of a pop, the store holds
\* exactly the values pushed and not yet popped, oldest at tail, and the value
\* a pop has read, before it advances tail, is the oldest of them.
C6_FifoOrder ==
    /\ Len(fifo) = (SensorBuf.head - SensorBuf.tail) % SensorBuf.maxlen
    /\ \A i \in 1..Len(fifo) : SensorBuf.bufdata[SlotOf(i)] = fifo[i]
    /\ pc = "pop_wr" => (fifo # << >> /\ BufDataVar = Head(fifo))

\* C6 witness: a pop has read the oldest value of a full, wrapped-around store
\* whose two oldest values differ.
C6_Witness ==
    /\ pc = "pop_wr"
    /\ Len(fifo) = SensorBuf.maxlen - 1
    /\ SensorBuf.head < SensorBuf.tail
    /\ fifo[1] # fifo[2]
    /\ BufDataVar = fifo[1]

\* ---------------------------------------------------- FlashLog specification
\* The flash log between the tick handler, which appends, and the main loop,
\* which handles FlashStart, FlashSetSampleSize and FlashEraseFull; the request
\* frames are fetched by the polled call of the receive handler.  Sample sizes
\* asked for: 0, one that is not a multiple of the word size, one just under
\* and one above the region size.
SampleArgs ==
    {0, SampleBytes + 2, FlashMaxSize - 1, FlashMaxSize + SampleBytes}

FlashFrames ==
    { Frame(icmdFlashStart, ReplyA, 0), Frame(icmdFlashEraseFull, ReplyA, 0) }
    \cup { Frame(icmdFlashSetSampleSize, ReplyA, a) : a \in SampleArgs }

FlashEvents ==
    { RxEvent("none", 0, ZeroMsg) }
    \cup { RxEvent("rx", CAN_ID, f) : f \in FlashFrames }

NextFlash ==
    \/ MainLoop(FlashEvents) /\ UNCHANGED obsVars
    \/ SysTickOn({0}) /\ UNCHANGED obsVars

SpecFlash == Init /\ [][NextFlash]_vars

\* ----------------------------------------------------- FlashLog properties
\* The erase block that holds addr.
BlockOf(addr) == addr \div EraseBlock

\* A step of the tick handler that programs a sample.
ProgramStep == SysTick /\ progLog' # progLog

\* A step of the main loop that handles FlashStart, from CAN or from I2C.
FlashStartStep ==
    /\ FlashIndex' = FlashUserSpace
    /\ \/ MainDispatch /\ CAN_CMD_REQUEST = icmdFlashStart
       \/ MainI2C /\ I2C_RcvNewCommand /\ I2C_RcvCommand = icmdFlashStart

\* C7: the cursor never leaves [FlashUserSpace, FlashUserSpace + region size],
\* whatever ticks, FlashStart and FlashSetSampleSize commands have run.
C7_CursorBounds ==
    /\ FlashUserSpace <= FlashIndex
    /\ FlashIndex <= FlashEnd

\* C7 witness: a pass has run the cursor from FlashUserSpace to the end of the
\* region, under a sample size that is not a multiple of the word size.
C7_Witness ==
    /\ FlashIndex = FlashEnd
    /\ Len(progLog) = FlashMaxSize \div SampleBytes
    /\ FlashSampleSize = FlashMaxSize - 1

\* C8: a tick programs only into an erased word, and it erases no block that
\* already holds a sample programmed in the current pass.
C8_EraseBeforeWrite ==
    [][ProgramStep =>
          /\ (IF EraseDue THEN FlashErase(flash, FlashIndex)
                          ELSE flash)[WordOf(ProgramAddr)] = ErasedWord
          /\ EraseDue =>
                \A i \in 1..Len(progLog) :
                    BlockOf(progLog[i]) # BlockOf(FlashIndex)]_vars

\* C9: the k-th sample programmed since FlashStart is at
\* FlashUserSpace + 4 * (k - 1), and every programmed address is below the end
\* of the region.
C9_ProgramAtCursor ==
    \A k \in 1..Len(progLog) :
        /\ progLog[k] = FlashUserSpace + SampleBytes * (k - 1)
        /\ progLog[k] >= FlashUserSpace
        /\ progLog[k] < FlashEnd

\* C10: a tick that finds the cursor at the end of the region erases nothing,
\* programs nothing and leaves the cursor there, and only a FlashStart moves
\* the cursor away from the end of the region.
C10_ExhaustedUntilStart ==
    [][(FlashIndex = FlashEnd) =>
          /\ SysTick => UNCHANGED flashVars
          /\ (FlashIndex' # FlashEnd) => FlashStartStep]_vars

\* C10 witness: in the state the program boots in, cursor at the end of the
\* region, a tick has read its sample and pushed it, and the flash log is as
\* it was.
C10_Witness ==
    /\ FlashIndex = FlashEnd
    /\ progLog = << >>
    /\ GlobalTimer = 1
    /\ Len(fifo) = 1
    /\ \A w \in FlashWords : flash[w] = ErasedWord

\* ------------------------------------------- flash settings specification
\* FlashSetSampleSize, FlashStart and FlashStatus against the tick handler.
\* Sample sizes asked for: 0, one that is not a multiple of the word size, the
\* region size, the region size plus one, 0x80000000 + 5 and 0xFFFFFFFF.
ConfigArgs ==
    {0, SampleBytes + 2, FlashMaxSize, FlashMaxSize + 1,
     FromBytes(128, 0, 0, 5), FromBytes(255, 255, 255, 255)}

ConfigFrames ==
    { Frame(icmdFlashStart, ReplyA, 0), Frame(icmdFlashStatus, ReplyA, 0) }
    \cup { Frame(icmdFlashSetSampleSize, ReplyA, a) : a \in ConfigArgs }

ConfigEvents ==
    { RxEvent("none", 0, ZeroMsg) }
    \cup { RxEvent("rx", CAN_ID, f) : f \in ConfigFrames }

NextConfig ==
    \/ MainLoop(ConfigEvents) /\ UNCHANGED obsVars
    \/ SysTickAt({0}, {0}) /\ UNCHANGED obsVars

SpecConfig == Init /\ [][NextConfig]_vars

\* A step of the main loop that runs the switch on the command cmd.
DispatchOf(cmd) == MainDispatch /\ CAN_CMD_REQUEST = cmd

\* The argument of the frame in the mailbox.
MsgArg == FromBytes(MSG[3], MSG[4], MSG[5], MSG[6])

\* C11: the result of FlashStatus is 100 exactly when the cursor is at
\* FlashUserSpace + FlashSampleSize.
C11_StatusHundredAtEnd ==
    [][DispatchOf(icmdFlashStatus) =>
          ((ResultOf(CAN_RESP') = 100)
              <=> (FlashIndex = FlashUserSpace + FlashSampleSize))]_vars

\* C15: FlashSetSampleSize stores its argument if it is in (0, region size]
\* and the region size otherwise, answers with the stored value, and
\* FlashSampleSize is always in (0, region size].
C15_SampleSizeClamp ==
    [][/\ FlashSampleSize > 0 /\ FlashSampleSize <= FlashMaxSize
       /\ FlashSampleSize' > 0 /\ FlashSampleSize' <= FlashMaxSize
       /\ DispatchOf(icmdFlashSetSampleSize) =>
             /\ FlashSampleSize' =
                   IF CANVAL_tmp > 0 /\ CANVAL_tmp <= FlashMaxSize
                   THEN CANVAL_tmp ELSE FlashMaxSize
             /\ ResultOf(CAN_RESP') = FlashSampleSize'
             /\ lastTx'[1].data = CAN_RESP']_vars

\* C15 witness: the argument 0xFFFFFFFF was answered with the region size,
\* after the sample size had been something else.
C15_Witness ==
    /\ pc = "end"
    /\ CAN_CMD_REQUEST = icmdFlashSetSampleSize
    /\ MsgArg = FromBytes(255, 255, 255, 255)
    /\ FlashSampleSize = FlashMaxSize
    /\ ResultOf(CAN_RESP) = FlashMaxSize
    /\ ResultOf(lastTx[1].data) = FlashMaxSize

\* ------------------------------------------------ dispatcher specification
\* The dispatcher by itself: every command code of the enumeration and one
\* that is not in it, fetched by the polled call of the receive handler.
UnknownCmd == icmdFlashGenCSV + 1

DispatchFrames ==
    { Frame(c, ReplyA, 0) : c \in icmdReadVersion..UnknownCmd }
    \cup { Frame(icmdFlashSetSampleSize, ReplyA, SampleBytes + 2) }

DispatchEvents ==
    { RxEvent("none", 0, ZeroMsg) }
    \cup { RxEvent("rx", CAN_ID, f) : f \in DispatchFrames }

NextDispatch == MainLoop(DispatchEvents) /\ UNCHANGED obsVars

SpecDispatch == Init /\ [][NextDispatch]_vars

\* The calls of CANSendMSG the switch makes for the command cmd.
ResponsesFor(cmd) ==
    IF cmd \in icmdReadVersion..icmdFlashStatus THEN 1
    ELSE IF cmd = icmdFlashGetData
         THEN FlashSampleSize \div SampleBytes + 3
         ELSE 0

C13_ResponseLayout ==
    [][(txCount' = txCount + 1) =>
          \E f \in MailboxFrames :
              /\ CAN_CMD_REQUEST = f[0]
              /\ lastTx'[1].id = f[1] * 256 + f[2]
              /\ \A i \in 0..3 :
                    lastTx'[1].data[i] =
                        <<RespTag, Byte(CAN_ID, 1), Byte(CAN_ID, 0), f[0]>>[i + 1]
              /\ f[0] = icmdReadVersion =>
                    ResultOf(lastTx'[1].data) = BuildVersion]_vars

\* C14: a ReadData that finds the store empty answers 0, one that finds it
\* non-empty answers the oldest value.
C14_ReadDataEmptyIsZero ==
    [][/\ (PopCheck /\ pc' = "rd_send") => BufDataVar' = 0
       /\ (PopWrite /\ pc' = "rd_send") => BufDataVar' = Head(fifo)
       /\ MainReadDataSend => ResultOf(CAN_RESP') = BufDataVar]_vars

(***************************************************************************)
(* FlashEraseFull, the cursor's moves and the heartbeat.                   *)
(***************************************************************************)

\* The words of the reserved region [FlashUserSpace, FlashEnd).
RegionWords == 0..(FlashMaxSize \div SampleBytes - 1)

\* C16: handling FlashEraseFull leaves every erase block of the reserved
\* region erased and answers the region's base address.
C16_EraseFullErasesRegion ==
    [][DispatchOf(icmdFlashEraseFull) =>
          /\ \A w \in RegionWords : flash'[w] = ErasedWord
          /\ ResultOf(CAN_RESP') = FlashUserSpace]_vars

C19_CursorMoves ==
    [][/\ SysTick => FlashIndex' \in {FlashIndex, FlashIndex + SampleBytes}
       /\ (FlashIndex' < FlashIndex) => FlashStartStep
       /\ (FlashIndex' > FlashIndex) =>
             (pc' = pc /\ FlashIndex' = FlashIndex + SampleBytes)
       /\ MainFlashStartSend =>
             /\ ResultOf(CAN_RESP') = FlashIndex
             /\ lastTx'[1].data = CAN_RESP']_vars

\* FlashStart lowered an advanced cursor to the base and answered it.
C19_Witness ==
    /\ pc = "end"
    /\ CAN_CMD_REQUEST = icmdFlashStart
    /\ FlashIndex = FlashUserSpace
    /\ ResultOf(CAN_RESP) = FlashUserSpace
    /\ \E w \in RegionWords : w > 0 /\ flash[w] # ErasedWord

(***************************************************************************)
(* Writers of the shared fields.                                           *)
(***************************************************************************)

\* A step taken in interrupt context: the main loop's position stays.
InterruptStep == pc' = pc

\* C20: every shared field has one writing context: the mailbox's frame and
\* flags, the ring's head and the flash cursor change only in steps of an
\* interrupt handler, the ring's tail only in steps of the main loop.
C20_SingleWriter ==
    [][/\ (MSG' # MSG \/ RECV_ID' # RECV_ID \/ FLAGS' # FLAGS) => InterruptStep
       /\ (SensorBuf.head' # SensorBuf.head) => InterruptStep
       /\ (FlashIndex' # FlashIndex) => InterruptStep
       /\ (SensorBuf.tail' # SensorBuf.tail) => ~InterruptStep]_vars

(***************************************************************************)
(* The tick handler: acquisition timeout, ring push, tick counter.         *)
(***************************************************************************)

\* The value TimeOutClock holds after a wait that gave up.
GaveUpClock == ADC_ReadTimeOut + 2

\* A run of the tick handler whose wait for the conversion gave up.
TimeoutTick == SysTick /\ TimeOutClock' = GaveUpClock

\* A run of the tick handler that read the conversion result s.
AcquiredTick(s) ==
    \E r \in ADCReadyAt : ADCWait(r, 0).ok /\ SysTickIntHandler(r, s)

\* C21: a tick whose wait for the conversion gives up returns at once: it
\* leaves the ring (head, tail, contents), FlashIndex and the flash as they
\* were, and the wait has polled once per count up to the bound and not again.
C21_TimeoutDropsTick ==
    [][TimeoutTick =>
          /\ UNCHANGED <<SensorBuf, fifo>>
          /\ UNCHANGED <<FlashIndex, flash, progLog>>]_vars

\* A tick gave up while the ring held a reading and the flash window was open.
C21_Witness ==
    /\ TimeOutClock = GaveUpClock
    /\ fifo # <<>>
    /\ FlashWindowOpen

\* C25: every tick that acquires a reading leaves that reading as the newest
\* entry of the ring, also when the ring already holds capacity - 1 entries.
C25_RingAlwaysReceives ==
    [][\A s \in ADCValues :
          AcquiredTick(s) =>
              /\ fifo' # <<>>
              /\ fifo'[Len(fifo')] = s
              /\ Len(fifo') = Len(fifo) + 1]_vars

\* C30: every run of the tick handler adds one to GlobalTimer, also a run
\* whose acquisition times out.
C30_TimerCountsTicks ==
    [][SysTick => GlobalTimer' = (GlobalTimer + 1) % TimerMod]_vars

(***************************************************************************)
(* The bounded waits and the main loop's progress.  The main loop runs     *)
(* whenever no handler does, so its steps are weakly fair; interrupts and  *)
(* changes of the bus are not.                                             *)
(***************************************************************************)

\* Polls for which a transmit request may stay set: cleared at the first
\* poll, at the last poll in time, and not in time.
TxDelays == {1, TxSpinMax, TxSpinMax + 1}

\* The bus changes how long it takes to accept a frame.
BusDelay ==
    /\ txDelay' \in TxDelays \ {txDelay}
    /\ UNCHANGED <<mailboxVars, ringVars, flashVars, tickVars, HeatbeatTrigger,
                   i2cVars, pc, localVars, sendVars, txCount>>

\* ------------------------------------------------------- the bounded waits
WaitsEvents ==
    { RxEvent("none", 0, ZeroMsg),
      RxEvent("rx", CAN_ID, Frame(icmdReadVersion, ReplyA, 0)) }

NextWaits ==
    \/ MainLoop(WaitsEvents) /\ UNCHANGED obsVars
    \/ SysTickOn({0}) /\ UNCHANGED obsVars
    \/ BusDelay /\ UNCHANGED obsVars

SpecWaits == Init /\ [][NextWaits]_vars

\* C22: the tick handler's wait for the conversion ends after at most
\* ADC_ReadTimeOut + 2 polls and CANSendMSG's wait for the transmit request
\* after at most TxSpinMax + 1, also when the hardware never completes; a
\* CANSendMSG whose wait gave up returns 0xffffffff, any other returns 0.
C22_BoundedWaits ==
    /\ TimeOutClock <= ADC_ReadTimeOut + 2
    /\ TimeOut <= TxSpinMax + 1
    /\ txRet = IF TimeOut > TxSpinMax THEN TxTimedOut ELSE 0

\* Both waits gave up: the last tick's and the last CANSendMSG's.
C22_Witness ==
    /\ TimeOutClock = GaveUpClock
    /\ lastTx # << >>
    /\ txDelay > TxSpinMax
    /\ TimeOut = TxSpinMax + 1
    /\ txRet = TxTimedOut

\* ------------------------------------------------- the main loop's progress
\* The flash cursor stays where the boot leaves it, at the end of the region:
\* the state of a log that ran full.
LiveFrames == { Frame(icmdFlashGetData, ReplyA, 0) }

LiveEvents ==
    { RxEvent("none", 0, ZeroMsg) }
    \cup { RxEvent("rx", CAN_ID, f) : f \in LiveFrames }

NextLive ==
    \/ MainLoop(LiveEvents) /\ UNCHANGED obsVars
    \/ CANInterrupt(LiveEvents) /\ UNCHANGED obsVars
    \/ SysTickAt({0, ADC_ReadTimeOut + 2}, {0}) /\ UNCHANGED obsVars
    \/ BusDelay /\ UNCHANGED obsVars

SpecLive ==
    Init /\ [][NextLive]_vars /\ WF_vars(MainLoop(LiveEvents) /\ UNCHANGED obsVars)

\* C23: whenever newFlag is set the main loop reaches the dispatch of the
\* stored frame, whatever came before, and it comes back to the test of
\* newFlag again and again.
C23_Responsive ==
    /\ NewFlag ~> (pc = "dispatch")
    /\ []<>(pc = "check")

\* A frame is dispatched with an overrun flagged, after a tick and a
\* CANSendMSG gave up their waits.
C23_Witness ==
    /\ pc = "dispatch"
    /\ CAN_CMD_REQUEST = icmdFlashGetData
    /\ OverrunFlag
    /\ TimeOutClock = GaveUpClock
    /\ txRet = TxTimedOut
    /\ FlashIndex = FlashEnd

(***************************************************************************)
(* Address filtering and the loss of frames.                               *)
(***************************************************************************)

\* What the handler may find: nothing to store or a frame for this module ...
OwnEvents ==
    { RxEvent("status", 0, ZeroMsg), RxEvent("none", 0, ZeroMsg) }
    \cup { RxEvent("rx", CAN_ID, f) : f \in MailboxFrames }

\* ... or a frame for another module.
ForeignEvents == { RxEvent("rx", OtherId, f) : f \in MailboxFrames }

\* The mailbox specification, with rxRejected recording whether the handler's
\* last run read a frame for another module.
NextFilter ==
    \/ /\ MainLoop(OwnEvents)
       /\ rxRejected' = IF pc = "poll" THEN FALSE ELSE rxRejected
       /\ UNCHANGED <<sinceMark, markBy>>
    \/ /\ pc = "poll"
       /\ MainLoop(ForeignEvents)
       /\ rxRejected' = TRUE
       /\ UNCHANGED <<sinceMark, markBy>>
    \/ /\ CANInterrupt(OwnEvents)
       /\ rxRejected' = FALSE
       /\ UNCHANGED <<sinceMark, markBy>>
    \/ /\ CANInterrupt(ForeignEvents)
       /\ rxRejected' = TRUE
       /\ UNCHANGED <<sinceMark, markBy>>

SpecFilter == Init /\ [][NextFilter]_vars

\* C26: a run of the receive handler, as interrupt or as the polled call, that
\* reads a frame whose identifier is not CAN_ID leaves the frame body, the
\* stored identifier, newFlag and overrunFlag as they were.
C26_AddressFilter ==
    [][\A rx \in ForeignEvents :
          (CANInterrupt({rx}) \/ MainPoll({rx})) =>
              UNCHANGED <<FLAGS, RECV_ID, MSG>>]_vars

\* The handler has just read a frame for another module while a frame for
\* this one was pending with an overrun flagged; the mailbox still holds them.
C26_Witness ==
    /\ rxRejected
    /\ NewFlag
    /\ OverrunFlag
    /\ RECV_ID = CAN_ID
    /\ MSG \in MailboxFrames

\* The main loop has found newFlag set and has not yet read the whole frame.
ReadingFrame ==
    pc \in {"clr_load", "clr_store", "read_id", "read_val", "resp", "cmd"}

\* C27: a frame that is overwritten before the main loop has dispatched it is
\* flagged: the arrival that overwrites it leaves overrunFlag set, and
\* overrunFlag stays set until the main loop's overrun branch.
C27_NoSilentLoss ==
    [][/\ (ArrivalStep /\ (NewFlag \/ ReadingFrame)) => OverrunFlag'
       /\ (OverrunFlag /\ ~OverrunFlag') => MainOverrun]_vars

(***************************************************************************)
(* The spacing of heartbeats.                                              *)
(***************************************************************************)

\* The observer counts runs of the tick handler up to MarkCap.
MarkCap == HeartBeatTime + 1

BeatEvents ==
    { RxEvent("none", 0, ZeroMsg),
      RxEvent("rx", CAN_ID, Frame(icmdReadVersion, ReplyA, 0)) }

\* The main loop and the tick, with sinceMark counting the runs of the tick
\* handler since the step named by markBy: the end of a command's handling
\* ("cmd"), the sending of a heartbeat ("hb") or the boot.
NextBeat ==
    \/ /\ MainLoop(BeatEvents)
       /\ sinceMark' = IF pc \in {"end", "hb_send"} THEN 0 ELSE sinceMark
       /\ markBy' = CASE pc = "end" -> "cmd"
                      [] pc = "hb_send" -> "hb"
                      [] OTHER -> markBy
       /\ UNCHANGED rxRejected
    \/ /\ SysTickAt({0, ADC_ReadTimeOut + 2}, {0})
       /\ sinceMark' = IF sinceMark < MarkCap THEN sinceMark + 1 ELSE sinceMark
       /\ UNCHANGED <<markBy, rxRejected>>

SpecBeat == Init /\ [][NextBeat]_vars

\* C24: the end of a command's handling sets the deadline to GlobalTimer +
\* HeartBeatTime, and the next heartbeat is sent only after more than
\* HeartBeatTime ticks.
C24_CommandDelaysHeartbeat ==
    [][/\ MainEnd => HeatbeatTrigger' = (GlobalTimer + HeartBeatTime) % TimerMod
       /\ (MainHeartbeatSend /\ markBy = "cmd") => sinceMark > HeartBeatTime]_vars

\* C29: two heartbeats in a row, with no command handled between them, are
\* at least HeartBeatTime ticks apart, also when GlobalTimer + HeartBeatTime
\* wraps.
C29_HeartbeatSpacing ==
    [][(MainHeartbeatSend /\ markBy = "hb") => sinceMark >= HeartBeatTime]_vars

(***************************************************************************)
(* FlashStatus and FlashGetData against the sample window.                 *)
(***************************************************************************)

\* The first address past the sample window.
WindowEnd == FlashUserSpace + FlashSampleSize

\* C31: FlashStatus never answers more than 100, and the cursor never lies
\* past the end of the sample window, also after FlashSetSampleSize lowers the
\* size under an advanced cursor or sets a size that is no multiple of 4.
C31_StatusAtMostHundred ==
    [][/\ DispatchOf(icmdFlashStatus) => ResultOf(CAN_RESP') <= 100
       /\ FlashIndex' <= FlashUserSpace + FlashSampleSize']_vars

\* C32: FlashGetData sends a header carrying FlashSampleSize, then one frame
\* for each word of [FlashUserSpace, WindowEnd) and no other, FlashSampleSize/4
\* frames in all, then a frame carrying 0; it reads no word at or past
\* WindowEnd and none past the reserved region.
C32_DumpWithinWindow ==
    [][/\ DispatchOf(icmdFlashGetData) => ResultOf(CAN_RESP') = FlashSampleSize
       /\ (GetDataLoop /\ DumpMore) =>
             /\ FlashUserSpace <= lop
             /\ lop < WindowEnd
             /\ lop < FlashEnd
             /\ lop' = lop + SampleBytes
       /\ GetDataEnd => ResultOf(CAN_RESP') = 0
       /\ (MainEnd /\ CAN_CMD_REQUEST = icmdFlashGetData) =>
             txCount = FlashSampleSize \div SampleBytes + 2]_vars

====
